---- MODULE Spec2Model ----
(***************************************************************************)
(* Model of ShopFix/shop_name_matcher.py: the shop-name matcher            *)
(* (ShopNameMatcher), its registry loader, the comma-separated token       *)
(* processor and the JSON document walker.                                 *)
(*                                                                         *)
(* Python strings are TLA+ strings; a similarity score (a Python float)    *)
(* is an exact fraction <<numerator, denominator>> in lowest terms.        *)
(***************************************************************************)
EXTENDS Integers, Sequences, FiniteSets, TLC

(***************************************************************************)
(* Strings: str.strip, str.lower, str.startswith, str.split, str.join      *)
(***************************************************************************)

\* The characters of a string, as a sequence of one-character strings.
Chars(s) == [i \in 1..Len(s) |-> SubSeq(s, i, i)]

UpperLetters == "ABCDEFGHIJKLMNOPQRSTUVWXYZ"
LowerLetters == "abcdefghijklmnopqrstuvwxyz"

\* str.lower() on one character.
LowerChar(c) ==
  IF \E i \in 1..Len(UpperLetters) : SubSeq(UpperLetters, i, i) = c
  THEN LET i == CHOOSE k \in 1..Len(UpperLetters) : SubSeq(UpperLetters, k, k) = c
       IN SubSeq(LowerLetters, i, i)
  ELSE c

RECURSIVE LowerFrom(_, _)
LowerFrom(s, i) ==
  IF i > Len(s) THEN "" ELSE LowerChar(SubSeq(s, i, i)) \o LowerFrom(s, i + 1)

\* str.lower()
Lower(s) == LowerFrom(s, 1)

IsSpace(c) == c = " "

\* str.strip(): drops leading and trailing whitespace.
Strip(s) ==
  LET keep == {i \in 1..Len(s) : ~IsSpace(SubSeq(s, i, i))}
  IN IF keep = {} THEN ""
     ELSE LET lo == CHOOSE i \in keep : \A k \in keep : i <= k
              hi == CHOOSE i \in keep : \A k \in keep : i >= k
          IN SubSeq(s, lo, hi)

\* str.startswith(p)
StartsWith(s, p) == Len(s) >= Len(p) /\ SubSeq(s, 1, Len(p)) = p

\* s[n:]
DropFirst(s, n) == IF n >= Len(s) THEN "" ELSE SubSeq(s, n + 1, Len(s))

RECURSIVE SplitFrom(_, _, _)
SplitFrom(s, i, start) ==
  IF i > Len(s) THEN << SubSeq(s, start, Len(s)) >>
  ELSE IF SubSeq(s, i, i) = ","
       THEN << SubSeq(s, start, i - 1) >> \o SplitFrom(s, i + 1, i + 1)
       ELSE SplitFrom(s, i + 1, start)

\* str.split(','): always at least one segment.
SplitComma(s) == SplitFrom(s, 1, 1)

RECURSIVE JoinFrom(_, _)
JoinFrom(names, i) ==
  IF i > Len(names) THEN ""
  ELSE IF i = Len(names) THEN names[i]
       ELSE names[i] \o ", " \o JoinFrom(names, i + 1)

\* ', '.join(names)
JoinCommaSpace(names) == JoinFrom(names, 1)

(***************************************************************************)
(* Fractions: the values of the similarity scores and of the thresholds    *)
(***************************************************************************)

RECURSIVE Gcd(_, _)
Gcd(a, b) == IF b = 0 THEN a ELSE Gcd(b, a % b)

\* n/d in lowest terms (d > 0, n >= 0).
Frac(n, d) == LET g == Gcd(n, d) IN << n \div g, d \div g >>

FracZero == Frac(0, 1)
FracOne == Frac(1, 1)

\* x < y, by continued-fraction expansion (no products, so no overflow).
RECURSIVE FracLessND(_, _, _, _)
FracLessND(n1, d1, n2, d2) ==
  LET q1 == n1 \div d1
      q2 == n2 \div d2
      r1 == n1 % d1
      r2 == n2 % d2
  IN IF q1 # q2 THEN q1 < q2
     ELSE IF r2 = 0 THEN FALSE
     ELSE IF r1 = 0 THEN TRUE
     ELSE FracLessND(d2, r2, d1, r1)

FracLess(x, y) == FracLessND(x[1], x[2], y[1], y[2])
FracGreater(x, y) == FracLess(y, x)
FracGeq(x, y) == ~FracLess(x, y)
FracLeq(x, y) == ~FracLess(y, x)
FracMax(x, y) == IF FracLess(x, y) THEN y ELSE x

\* min(1.0, x * w) for a weight w = wn/wd
WeightedCapped(x, wn, wd) ==
  LET y == Frac(x[1] * wn, x[2] * wd)
  IN IF FracLess(FracOne, y) THEN FracOne ELSE y

(***************************************************************************)
(* textdistance.levenshtein / textdistance.jaro_winkler                    *)
(***************************************************************************)

Min2(a, b) == IF a <= b THEN a ELSE b
Max2(a, b) == IF a >= b THEN a ELSE b

\* One row of the edit-distance table, from the row before it: cur holds the
\* columns 0..Len(cur)-1, and the row is complete when it is as long as prev.
RECURSIVE LevRowFill(_, _, _, _)
LevRowFill(prev, ch, b, cur) ==
  IF Len(cur) = Len(prev) THEN cur
  ELSE LET j == Len(cur)
           cost == IF b[j] = ch THEN 0 ELSE 1
           v == Min2(Min2(prev[j + 1] + 1, cur[j] + 1), prev[j] + cost)
       IN LevRowFill(prev, ch, b, Append(cur, v))

\* Row i of the edit-distance table (row 0: the distances from the empty prefix).
RECURSIVE LevRow(_, _, _)
LevRow(a, b, i) ==
  IF i = 0 THEN [j \in 1..(Len(b) + 1) |-> j - 1]
  ELSE LevRowFill(LevRow(a, b, i - 1), a[i], b, << i >>)

\* levenshtein.distance: insertions, deletions, substitutions, each of cost 1.
LevDistance(s1, s2) ==
  LET a == Chars(s1)
      b == Chars(s2)
  IN LevRow(a, b, Len(a))[Len(b) + 1]

\* levenshtein.normalized_similarity: 1 - distance / max(len); 1 when both empty.
LevSimilarity(s1, s2) ==
  LET m == Max2(Len(s1), Len(s2))
  IN IF m = 0 THEN FracOne ELSE Frac(m - LevDistance(s1, s2), m)

\* Jaro matching: for each character of a in order, flag the first unflagged
\* equal character of b within the search range.  Yields <<flags of a, flags of b>>.
RECURSIVE JaroFlags(_, _, _, _, _, _)
JaroFlags(a, b, range, i, fa, fb) ==
  IF i > Len(a) THEN << fa, fb >>
  ELSE LET low == Max2(1, i - range)
           hi == Min2(i + range, Len(b))
           cand == {j \in low..hi : ~fb[j] /\ b[j] = a[i]}
       IN IF cand = {} THEN JaroFlags(a, b, range, i + 1, fa, fb)
          ELSE LET j == CHOOSE k \in cand : \A m \in cand : k <= m
               IN JaroFlags(a, b, range, i + 1,
                            [fa EXCEPT ![i] = TRUE], [fb EXCEPT ![j] = TRUE])

\* The flagged characters of a, in order.
RECURSIVE Flagged(_, _, _)
Flagged(a, f, i) ==
  IF i > Len(a) THEN << >>
  ELSE IF f[i] THEN << a[i] >> \o Flagged(a, f, i + 1)
       ELSE Flagged(a, f, i + 1)

\* Length of the common prefix of a and b, looking at the first lim characters.
RECURSIVE CommonPrefix(_, _, _, _)
CommonPrefix(a, b, lim, i) ==
  IF i < lim /\ a[i + 1] = b[i + 1] THEN CommonPrefix(a, b, lim, i + 1) ELSE i

\* The Jaro weight from the number of matching characters and of transpositions.
JaroWeight(common, trans, l1, l2) ==
  Frac(common * l2 * common + common * l1 * common + (common - trans) * l1 * l2,
       3 * l1 * l2 * common)

\* The Winkler boost: a weight above 0.7 gains 0.1 per character of the common
\* prefix p (at most 4) of what it lacks to 1.
Winklerize(weight, p) ==
  IF FracLeq(weight, Frac(7, 10)) THEN weight
  ELSE Frac(10 * weight[1] + p * (weight[2] - weight[1]), 10 * weight[2])

\* The similarity from the matching characters ma of a and mb of b.
JaroOfMatches(a, b, ma, mb) ==
  IF Len(ma) = 0 THEN FracZero
  ELSE Winklerize(JaroWeight(Len(ma),
                             Cardinality({k \in 1..Len(ma) : ma[k] # mb[k]}) \div 2,
                             Len(a), Len(b)),
                  CommonPrefix(a, b, Min2(Min2(Len(a), Len(b)), 4), 0))

\* The similarity from the flags fl = <<flags of a, flags of b>>.
JaroOfFlags(a, b, fl) == JaroOfMatches(a, b, Flagged(a, fl[1], 1), Flagged(b, fl[2], 1))

\* The search range: max(len) // 2 - 1, at least 0.
JaroRange(l1, l2) == Max2((Max2(l1, l2) \div 2) - 1, 0)

\* The similarity of two non-empty character sequences.
JaroOfChars(a, b) ==
  JaroOfFlags(a, b, JaroFlags(a, b, JaroRange(Len(a), Len(b)), 1,
                              [i \in 1..Len(a) |-> FALSE], [j \in 1..Len(b) |-> FALSE]))

\* jaro_winkler.similarity (winklerize, prefix weight 0.1, no long tolerance).
JaroWinkler(s1, s2) ==
  IF s1 = s2 THEN FracOne
  ELSE IF Len(s1) = 0 \/ Len(s2) = 0 THEN FracZero
  ELSE JaroOfChars(Chars(s1), Chars(s2))

\* jaro_winkler.normalized_similarity: 1 - (maximum - similarity) / maximum, maximum = 1.
JWSimilarity(s1, s2) == JaroWinkler(s1, s2)

(***************************************************************************)
(* ShopNameMatcher.find_best_match                                         *)
(***************************************************************************)

\* Python's None, and the empty result of a call that returns nothing.
None == << >>

BrandToken == "shein"
BrandPrefix == "shein "

\* x.startswith('shein ')
HasBrandPrefix(lower) == StartsWith(lower, BrandPrefix)

\* x[6:].strip()
BrandSuffix(x) == Strip(DropFirst(x, Len(BrandPrefix)))

\* name in self.standard_shop_names
InRegistry(names, name) == \E i \in 1..Len(names) : names[i] = name

\* The first of the indexes hits (registry order), 0 if there is none:
\* "for standard_name in self.standard_shop_names: if ...: return".
FirstIndex(hits) ==
  IF hits = {} THEN 0 ELSE CHOOSE i \in hits : \A k \in hits : i <= k

\* Lines 74-75: empty or whitespace-only input.
IsBlankInput(raw) == raw = "" \/ Strip(raw) = ""

\* A slip: the membership test made on the lowered name.
IsExactMatchLowered(names, ocr_name) == InRegistry(names, Lower(ocr_name))

\* Lines 83-84: exact, case-sensitive membership.
IsExactMatch(names, ocr_name) == InRegistry(names, ocr_name)

\* A slip: the brand token compared without lowering the name.
IsBrandTokenCaseSensitive(ocr_name) == ocr_name = BrandToken

\* Lines 87-88: the bare brand token in any casing.
IsBrandToken(ocr_name) == Lower(ocr_name) = BrandToken

\* Lines 91-94: case-insensitive exact match.
CaseInsensitiveIndex(names, ocr_name) ==
  FirstIndex({ i \in 1..Len(names) : Lower(names[i]) = Lower(ocr_name) })

\* Lines 97-100: SHEIN GLOWMODE -> glowmode.
GlowmodeIndex(names, ocr_name) ==
  IF Lower(ocr_name) = "shein glowmode"
  THEN FirstIndex({ i \in 1..Len(names) : Lower(names[i]) = "glowmode" })
  ELSE 0

\* Lines 103-106: Leisure -> SHEIN Leisure.
LeisureIndex(names, ocr_name) ==
  IF Lower(ocr_name) = "leisure"
  THEN FirstIndex({ i \in 1..Len(names) : Lower(names[i]) = "shein leisure" })
  ELSE 0

\* Lines 109-116: the input carries the prefix, an entry equals its suffix.
PrefixRemovedIndex(names, ocr_name) ==
  IF HasBrandPrefix(Lower(ocr_name))
  THEN FirstIndex({ i \in 1..Len(names) : Lower(names[i]) = Lower(BrandSuffix(ocr_name)) })
  ELSE 0

\* Lines 120-125: an entry carries the prefix, its suffix equals the input.
PrefixAddedIndex(names, ocr_name) ==
  FirstIndex({ i \in 1..Len(names) :
                 /\ HasBrandPrefix(Lower(names[i]))
                 /\ BrandSuffix(Lower(names[i])) = Lower(ocr_name) })

\* A slip: the prefix-aware comparison left unweighted.
PrefixWeightNone(op, sp) == 100

\* Lines 145, 163, 181: the weight of the prefix-aware comparison, in percent:
\* 1.1 when both names carry the prefix, 1.2 when only the input does, 1.15
\* when only the entry does.
PrefixWeight(op, sp) == IF op /\ sp THEN 110 ELSE IF op THEN 120 ELSE 115

\* Lines 129-205: the scores of one registry entry.
EntryScores(ocr_name, standard_name) ==
  LET ocr_name_lower == Lower(ocr_name)
      standard_lower == Lower(standard_name)
      op == HasBrandPrefix(ocr_name_lower)
      sp == HasBrandPrefix(standard_lower)
      \* the pair of strings compared by the prefix-aware branch, and its weight
      x == IF op THEN BrandSuffix(ocr_name_lower) ELSE ocr_name_lower
      y == IF sp THEN BrandSuffix(standard_lower) ELSE standard_lower
      wn == PrefixWeight(op, sp)
      suffix_lev == IF op \/ sp THEN WeightedCapped(LevSimilarity(x, y), wn, 100)
                    ELSE FracZero
      suffix_jw == IF op \/ sp THEN WeightedCapped(JWSimilarity(x, y), wn, 100)
                   ELSE FracZero
      lev_similarity == LevSimilarity(ocr_name, standard_name)
      jw_similarity == JWSimilarity(ocr_name, standard_name)
      lev_similarity_ci == LevSimilarity(ocr_name_lower, standard_lower)
      jw_similarity_ci == JWSimilarity(ocr_name_lower, standard_lower)
      full_lev == FracMax(lev_similarity, lev_similarity_ci)
      full_jw == FracMax(jw_similarity, jw_similarity_ci)
  IN [ current_lev_similarity |-> FracMax(FracMax(FracZero, suffix_lev), full_lev),
       current_jw_similarity |-> FracMax(FracMax(FracZero, suffix_jw), full_jw),
       lev_cs_wins |-> FracGeq(lev_similarity, lev_similarity_ci),
       jw_cs_wins |-> FracGeq(jw_similarity, jw_similarity_ci),
       op |-> op, sp |-> sp,
       suffix_lev |-> suffix_lev, suffix_jw |-> suffix_jw,
       full_lev |-> full_lev, full_jw |-> full_jw ]

\* Lines 212-219 and 225-232: the label of an update.
AlgorithmLabel(metric, op, sp, cs_wins) ==
  IF op /\ sp THEN metric \o " (SHEIN-suffix)"
  ELSE IF op /\ ~sp THEN metric \o " (SHEIN-removed)"
  ELSE IF ~op /\ sp THEN metric \o " (SHEIN-added)"
  ELSE IF cs_wins THEN metric ELSE metric \o " (case-insensitive)"

\* A slip: a score equal to the best so far replaces it.
QualifiesOnTie(score, threshold, best_similarity) ==
  FracGeq(score, threshold) /\ FracGeq(score, best_similarity)

\* A slip: the threshold comparison turned round.
QualifiesReversed(score, threshold, best_similarity) ==
  FracLeq(score, threshold) /\ FracGreater(score, best_similarity)

\* Line 208 / line 221: the condition under which a score replaces the best.
Qualifies(score, threshold, best_similarity) ==
  FracGeq(score, threshold) /\ FracGreater(score, best_similarity)

\* Lines 207-232: the two updates of the running best for one entry.
UpdateBest(best, standard_name, sc, lt, jt) ==
  LET b1 == IF Qualifies(sc.current_lev_similarity, lt, best.best_similarity)
            THEN [ best_match |-> standard_name,
                   best_similarity |-> sc.current_lev_similarity,
                   best_algorithm |->
                     AlgorithmLabel("Levenshtein", sc.op, sc.sp, sc.lev_cs_wins) ]
            ELSE best
  IN IF Qualifies(sc.current_jw_similarity, jt, b1.best_similarity)
     THEN [ best_match |-> standard_name,
            best_similarity |-> sc.current_jw_similarity,
            best_algorithm |->
              AlgorithmLabel("Jaro-Winkler", sc.op, sc.sp, sc.jw_cs_wins) ]
     ELSE b1

\* Lines 78-80: best_match = None (here ""), best_similarity = 0, best_algorithm = "".
InitialBest == [ best_match |-> "", best_similarity |-> FracZero, best_algorithm |-> "" ]

\* Lines 128-232: the loop over the registry, in registry order.
RECURSIVE ScoreLoop(_, _, _, _, _, _)
ScoreLoop(names, ocr_name, lt, jt, i, best) ==
  IF i > Len(names) THEN best
  ELSE ScoreLoop(names, ocr_name, lt, jt, i + 1,
                 UpdateBest(best, names[i], EntryScores(ocr_name, names[i]), lt, jt))

\* Lines 234-237: "if best_match: return (...)", else None.
BestResult(best) ==
  IF best.best_match # ""
  THEN << best.best_match, best.best_similarity, best.best_algorithm >>
  ELSE None

\* Lines 127-237: generic scoring and the final "if best_match".
GenericScoring(names, lt, jt, ocr_name) ==
  BestResult(ScoreLoop(names, ocr_name, lt, jt, 1, InitialBest))

\* A rule that returns (names[i], 1.0, label).
ExactResult(names, i, label) == << names[i], FracOne, label >>

\* A slip: the prefix rules tried before the two special cases.
FindBestMatchPrefixFirst(names, lt, jt, raw) ==
  IF IsBlankInput(raw) THEN None
  ELSE IF IsExactMatch(names, Strip(raw)) THEN None
  ELSE IF IsBrandToken(Strip(raw)) THEN None
  ELSE IF CaseInsensitiveIndex(names, Strip(raw)) # 0
       THEN ExactResult(names, CaseInsensitiveIndex(names, Strip(raw)),
                        "Case-insensitive exact match")
  ELSE IF PrefixRemovedIndex(names, Strip(raw)) # 0
       THEN ExactResult(names, PrefixRemovedIndex(names, Strip(raw)),
                        "SHEIN-prefix removed exact match")
  ELSE IF PrefixAddedIndex(names, Strip(raw)) # 0
       THEN ExactResult(names, PrefixAddedIndex(names, Strip(raw)),
                        "SHEIN-prefix added exact match")
  ELSE IF GlowmodeIndex(names, Strip(raw)) # 0
       THEN ExactResult(names, GlowmodeIndex(names, Strip(raw)),
                        "Special case: SHEIN GLOWMODE -> glowmode")
  ELSE IF LeisureIndex(names, Strip(raw)) # 0
       THEN ExactResult(names, LeisureIndex(names, Strip(raw)),
                        "Special case: Leisure -> SHEIN Leisure")
  ELSE GenericScoring(names, lt, jt, Strip(raw))

\* find_best_match(ocr_name) for a matcher holding names and the two thresholds.
FindBestMatch(names, lt, jt, raw) ==
  IF IsBlankInput(raw) THEN None
  ELSE
    LET ocr_name == Strip(raw)
        ci == CaseInsensitiveIndex(names, ocr_name)
        gm == GlowmodeIndex(names, ocr_name)
        le == LeisureIndex(names, ocr_name)
        pr == PrefixRemovedIndex(names, ocr_name)
        pa == PrefixAddedIndex(names, ocr_name)
    IN IF IsExactMatch(names, ocr_name) THEN None
       ELSE IF IsBrandToken(ocr_name) THEN None
       ELSE IF ci # 0 THEN ExactResult(names, ci, "Case-insensitive exact match")
       ELSE IF gm # 0
            THEN ExactResult(names, gm, "Special case: SHEIN GLOWMODE -> glowmode")
       ELSE IF le # 0
            THEN ExactResult(names, le, "Special case: Leisure -> SHEIN Leisure")
       ELSE IF pr # 0 THEN ExactResult(names, pr, "SHEIN-prefix removed exact match")
       ELSE IF pa # 0 THEN ExactResult(names, pa, "SHEIN-prefix added exact match")
       ELSE GenericScoring(names, lt, jt, ocr_name)

(***************************************************************************)
(* ShopNameMatcher._load_standard_names                                    *)
(***************************************************************************)

\* A CSV file: whether open() and the reads succeed, and the rows csv.reader
\* yields, each a list of fields.
CsvFile(rows) == [readable |-> TRUE, rows |-> rows]
Unreadable == [readable |-> FALSE, rows |-> << >>]

\* Lines 55-57: "if row and row[0].strip(): shop_names.append(row[0].strip())".
RECURSIVE LoadRows(_, _)
LoadRows(rows, i) ==
  IF i > Len(rows) THEN << >>
  ELSE IF Len(rows[i]) > 0 /\ Strip(rows[i][1]) # ""
       THEN << Strip(rows[i][1]) >> \o LoadRows(rows, i + 1)
       ELSE LoadRows(rows, i + 1)

\* _load_standard_names on a readable file.
LoadStandardNames(rows) == LoadRows(rows, 1)

(***************************************************************************)
(* JSON values (what json.load yields): one-field records tagged by type   *)
(***************************************************************************)

JStr(s) == [str |-> s]
JNum(n) == [num |-> n]
JBool(b) == [bool |-> b]
JNull == [null |-> TRUE]
JList(q) == [list |-> q]
JDict(f) == [dict |-> f]
EmptyDict == JDict(<< >>)

IsStr(v) == DOMAIN v = {"str"}
IsNum(v) == DOMAIN v = {"num"}
IsBool(v) == DOMAIN v = {"bool"}
IsNull(v) == DOMAIN v = {"null"}
IsList(v) == DOMAIN v = {"list"}
IsDict(v) == DOMAIN v = {"dict"}

\* "not v": None, False, 0, "", [] and {} are falsy.
IsFalsy(v) ==
  \/ IsNull(v)
  \/ IsBool(v) /\ ~v.bool
  \/ IsNum(v) /\ v.num = 0
  \/ IsStr(v) /\ v.str = ""
  \/ IsList(v) /\ Len(v.list) = 0
  \/ IsDict(v) /\ DOMAIN v.dict = {}

\* sub in s, for strings
Contains(s, sub) ==
  \E i \in 1..(Len(s) - Len(sub) + 1) : SubSeq(s, i, i + Len(sub) - 1) = sub

(***************************************************************************)
(* ShopNameMatcher.process_comma_separated_shop_names                      *)
(***************************************************************************)

NoError == "none"

\* Line 253: [name.strip() for name in shop_names_str.split(',')]
StrippedNames(s) == LET parts == SplitComma(s) IN [i \in 1..Len(parts) |-> Strip(parts[i])]

\* A slip: a matched name is rewritten and no record is kept of it.
NamesStepNoRecord(acc, original_name, match_result) ==
  IF original_name = "" THEN acc
  ELSE IF match_result # None THEN << Append(acc[1], match_result[1]), acc[2] >>
  ELSE << Append(acc[1], original_name), acc[2] >>

\* Lines 258-273: one name of the loop; acc = <<processed_names, replacement_records>>.
NamesStep(acc, original_name, match_result) ==
  IF original_name = "" THEN acc
  ELSE IF match_result # None
  THEN << Append(acc[1], match_result[1]),
          Append(acc[2], [ original |-> original_name,
                           replaced |-> match_result[1],
                           similarity |-> match_result[2],
                           algorithm |-> match_result[3] ]) >>
  ELSE << Append(acc[1], original_name), acc[2] >>

\* Lines 257-273: the loop over the names.
RECURSIVE NamesLoop(_, _, _, _, _, _)
NamesLoop(names, lt, jt, shop_names, i, acc) ==
  IF i > Len(shop_names) THEN acc
  ELSE NamesLoop(names, lt, jt, shop_names, i + 1,
                 NamesStep(acc, shop_names[i], FindBestMatch(names, lt, jt, shop_names[i])))

\* Lines 275-277: (', '.join(processed_names), replacement_records).
JoinedResult(acc) ==
  [raised |-> NoError, value |-> JStr(JoinCommaSpace(acc[1])), records |-> acc[2]]

\* process_comma_separated_shop_names(v) for a JSON value v: what it returns
\* (value, records) or the exception it raises.
ProcessCommaSeparated(names, lt, jt, v) ==
  IF IsFalsy(v) THEN [raised |-> NoError, value |-> v, records |-> << >>]
  ELSE IF ~IsStr(v)
       THEN [raised |-> "AttributeError", value |-> v, records |-> << >>]
  ELSE IF Strip(v.str) = "" THEN [raised |-> NoError, value |-> v, records |-> << >>]
  ELSE JoinedResult(NamesLoop(names, lt, jt, StrippedNames(v.str), 1, << << >>, << >> >>))

(***************************************************************************)
(* ShopNameMatcher.process_json_data                                       *)
(***************************************************************************)

\* "key in c": a key test on a dict, an element test on a list, a substring
\* test on a string, a TypeError on anything else.
KeyIn(key, c) ==
  IF IsDict(c) THEN (IF key \in DOMAIN c.dict THEN "yes" ELSE "no")
  ELSE IF IsList(c)
       THEN (IF \E i \in 1..Len(c.list) : c.list[i] = JStr(key) THEN "yes" ELSE "no")
  ELSE IF IsStr(c) THEN (IF Contains(c.str, key) THEN "yes" ELSE "no")
  ELSE "TypeError"

\* A slip: the indexes of the path counted from 1.
RecordPathOneBased(item_index, content_index, key) ==
  "[" \o ToString(item_index + 1) \o "].result.contents[" \o ToString(content_index + 1)
      \o "].fields." \o key \o ".valueString"

\* Lines 315 / 328: the path of a record.
RecordPath(item_index, content_index, key) ==
  "[" \o ToString(item_index) \o "].result.contents[" \o ToString(content_index)
      \o "].fields." \o key \o ".valueString"

\* Lines 314-317 / 327-330: path and field are added to each record.
TagRecords(records, item_index, content_index, key) ==
  [ i \in 1..Len(records) |->
      [ original |-> records[i].original, replaced |-> records[i].replaced,
        similarity |-> records[i].similarity, algorithm |-> records[i].algorithm,
        path |-> RecordPath(item_index, content_index, key), field |-> key ] ]

\* No write and no record: the outcome of a target field that is passed over.
SkipField(fields) == [raised |-> NoError, fields |-> fields, records |-> << >>]

\* Lines 310-317 / 323-330: the value is written back and the records tagged;
\* r is what process_comma_separated_shop_names gave for the valueString.
FieldResult(fields, key, item_index, content_index, r) ==
  IF r.raised # NoError THEN [SkipField(fields) EXCEPT !.raised = r.raised]
  ELSE [ raised |-> NoError,
         fields |-> JDict([fields.dict EXCEPT ![key] =
                      JDict([fields.dict[key].dict EXCEPT !["valueString"] = r.value])]),
         records |-> TagRecords(r.records, item_index, content_index, key) ]

\* Lines 307-317 / 320-330: one target field of a content's fields.
ProcessField(names, lt, jt, fields, key, item_index, content_index) ==
  IF KeyIn(key, fields) = "TypeError" THEN [SkipField(fields) EXCEPT !.raised = "TypeError"]
  ELSE IF KeyIn(key, fields) = "no" THEN SkipField(fields)
  ELSE IF ~IsDict(fields) THEN [SkipField(fields) EXCEPT !.raised = "TypeError"]
  ELSE IF ~IsDict(fields.dict[key]) THEN SkipField(fields)
  ELSE IF "valueString" \notin DOMAIN fields.dict[key].dict THEN SkipField(fields)
  ELSE FieldResult(fields, key, item_index, content_index,
                   ProcessCommaSeparated(names, lt, jt, fields.dict[key].dict["valueString"]))

\* The outcome of a content from those of its two target fields, f2 having
\* started from the fields f1 left.
ContentResult(content, f1, f2) ==
  IF f1.raised # NoError
  THEN [ raised |-> f1.raised,
         content |-> JDict([content.dict EXCEPT !["fields"] = f1.fields]),
         records |-> << >> ]
  ELSE [ raised |-> f2.raised,
         content |-> JDict([content.dict EXCEPT !["fields"] = f2.fields]),
         records |-> f1.records \o f2.records ]

\* Lines 319-330: the shopname_in_search_bar field, after the shopname field.
SearchBarField(names, lt, jt, content, item_index, content_index, f1) ==
  ContentResult(content, f1,
                ProcessField(names, lt, jt, f1.fields, "shopname_in_search_bar",
                             item_index, content_index))

\* Lines 303-330: one entry of contents.
ProcessContent(names, lt, jt, content, item_index, content_index) ==
  IF ~IsDict(content) THEN [raised |-> NoError, content |-> content, records |-> << >>]
  ELSE IF "fields" \notin DOMAIN content.dict
       THEN [raised |-> NoError, content |-> content, records |-> << >>]
  ELSE SearchBarField(names, lt, jt, content, item_index, content_index,
                      ProcessField(names, lt, jt, content.dict["fields"], "shopname",
                                   item_index, content_index))

\* One turn of the loop over contents: r is the outcome of contents[i].
ContentsStep(acc, i, r) ==
  [ raised |-> r.raised,
    contents |-> [acc.contents EXCEPT ![i] = r.content],
    records |-> acc.records \o r.records ]

\* Line 302: the loop over contents; acc = [raised, contents, records].
RECURSIVE ContentsLoop(_, _, _, _, _, _)
ContentsLoop(names, lt, jt, item_index, i, acc) ==
  IF i > Len(acc.contents) \/ acc.raised # NoError THEN acc
  ELSE ContentsLoop(names, lt, jt, item_index, i + 1,
         ContentsStep(acc, i,
                      ProcessContent(names, lt, jt, acc.contents[i], item_index, i - 1)))

\* No write and no record: the outcome of an item that is passed over.
SkipItem(item) == [raised |-> NoError, item |-> item, records |-> << >>]

\* The outcome of an item from the outcome r of the loop over its contents.
ItemResult(item, r) ==
  [ raised |-> r.raised,
    item |-> JDict([item.dict EXCEPT !["result"] =
               JDict([item.dict["result"].dict EXCEPT !["contents"] = JList(r.contents)])]),
    records |-> r.records ]

\* Lines 297-302: one item of the document.
ProcessItem(names, lt, jt, item, item_index) ==
  IF ~IsDict(item) THEN SkipItem(item)
  ELSE IF "result" \notin DOMAIN item.dict THEN SkipItem(item)
  ELSE IF ~IsDict(item.dict["result"]) THEN SkipItem(item)
  ELSE IF "contents" \notin DOMAIN item.dict["result"].dict THEN SkipItem(item)
  ELSE IF ~IsList(item.dict["result"].dict["contents"]) THEN SkipItem(item)
  ELSE ItemResult(item,
         ContentsLoop(names, lt, jt, item_index, 1,
                      [ raised |-> NoError,
                        contents |-> item.dict["result"].dict["contents"].list,
                        records |-> << >> ]))

\* One turn of the loop over the items: r is the outcome of items[i].
ItemsStep(acc, i, r) ==
  [ raised |-> r.raised,
    items |-> [acc.items EXCEPT ![i] = r.item],
    records |-> acc.records \o r.records ]

\* Line 296: the loop over the items; acc = [raised, items, records].
RECURSIVE ItemsLoop(_, _, _, _, _)
ItemsLoop(names, lt, jt, i, acc) ==
  IF i > Len(acc.items) \/ acc.raised # NoError THEN acc
  ELSE ItemsLoop(names, lt, jt, i + 1,
         ItemsStep(acc, i, ProcessItem(names, lt, jt, acc.items[i], i - 1)))

\* The outcome of the walk from the outcome r of the loop over the items.
WalkResult(r) == [raised |-> r.raised, data |-> JList(r.items), records |-> r.records]

\* Lines 295-330: the walk, writing into the document data; yields the document
\* as written so far, the records, and the exception that ended the walk, if any.
Walk(names, lt, jt, data) ==
  IF ~IsList(data) THEN [raised |-> NoError, data |-> data, records |-> << >>]
  ELSE WalkResult(ItemsLoop(names, lt, jt, 1,
                            [raised |-> NoError, items |-> data.list, records |-> << >>]))

\* json.loads(json.dumps(v)) on a JSON value: the same value, rebuilt.
RECURSIVE JsonCopy(_)
JsonCopy(v) ==
  IF IsList(v) THEN JList([i \in 1..Len(v.list) |-> JsonCopy(v.list[i])])
  ELSE IF IsDict(v) THEN JDict([k \in DOMAIN v.dict |-> JsonCopy(v.dict[k])])
  ELSE v

\* A slip: no copy is made, the walk writes into the caller's object.
DeepCopyAlias(h, ref) == << h, ref >>

\* Objects live in a heap (a sequence of values); a reference is an index.
\* Line 291: the deep copy is a new object.  Yields <<heap, reference>>.
DeepCopy(h, ref) == << Append(h, JsonCopy(h[ref])), Len(h) + 1 >>

\* Line 332: what the call leaves: in heap h the object ref holds what the walk
\* w wrote, and ref is returned with the records.
JsonResult(h, ref, w) ==
  [ heap |-> [h EXCEPT ![ref] = w.data],
    processed_data |-> ref,
    replacement_records |-> w.records,
    raised |-> w.raised ]

\* Lines 292-332: the walk over the copy c = <<heap, reference>>.
WalkCopy(names, lt, jt, c) == JsonResult(c[1], c[2], Walk(names, lt, jt, c[1][c[2]]))

\* process_json_data(json_data) on the object json_data refers to: the heap
\* after the call, the reference it returns, the records, the exception raised.
ProcessJsonData(names, lt, jt, h, ref) == WalkCopy(names, lt, jt, DeepCopy(h, ref))

(***************************************************************************)
(* The inputs the model draws from                                         *)
(***************************************************************************)

\* Most rows a CSV file has.
MaxRows == 2

\* Most times process_json_data is applied in a chain (to its own output).
MaxPasses == 2

\* Rows as csv.reader yields them: an empty line, a blank field, names with
\* and without surrounding blanks, a quoted field holding a comma.
RowPool ==
  { << >>, << "  " >>, << "SHEIN Leisure" >>, << "glowmode" >>,
    << " Shein ", "x" >>, << "ab,cd" >> }

RECURSIVE SeqsUpTo(_, _)
SeqsUpTo(S, n) ==
  IF n = 0 THEN { << >> }
  ELSE LET shorter == SeqsUpTo(S, n - 1)
       IN shorter \cup { Append(q, x) : q \in { r \in shorter : Len(r) = n - 1 }, x \in S }

\* Every CSV file of at most MaxRows rows.
AllCsvFiles == { CsvFile(rows) : rows \in SeqsUpTo(RowPool, MaxRows) }

\* The CSV files the matcher is exercised with: the registry of the examples,
\* one with a case variant of the brand token, one with a name that holds a
\* comma, one with no name at all, one that lists a name twice, and one that
\* cannot be read; and one with two names that differ in their last letter.
CsvFiles ==
  { CsvFile(<< << "SHEIN Leisure" >>, << "glowmode" >> >>),
    CsvFile(<< << " Shein ", "x" >>, << "SHEIN Leisure" >>, << "glowmode" >> >>),
    CsvFile(<< << "ab,cd" >>, << "glowmode" >> >>),
    CsvFile(<< << >>, << "  " >> >>),
    CsvFile(<< << "glowmode" >>, << >>, << "glowmode" >> >>),
    CsvFile(<< << "SHEIN Leisure" >>, << "SHEIN Leisures" >> >>),
    Unreadable }

\* The values a threshold takes, and the pairs a matcher is built with
\* (<<levenshtein_threshold, jaro_winkler_threshold>>; the defaults are 0.8, 0.85).
ThresholdValues == { Frac(0, 1), Frac(1, 2), Frac(4, 5), Frac(17, 20), Frac(1, 1) }
ThresholdPairs ==
  { << Frac(4, 5), Frac(17, 20) >>, << Frac(4, 5), Frac(4, 5) >>,
    << Frac(1, 2), Frac(1, 2) >>, << Frac(0, 1), Frac(0, 1) >> }

\* Arguments of find_best_match.
InputPool ==
  { "", "  ", "SHEIN Leisure", "glowmode", "Shein", "ab,cd",
    "SHEIN", "shein", " sHeIn ", "GLOWMODE", "Leisure", "SHEIN GLOWMODE",
    "Leisuree", "SHEIN Leisuree", "SHEIN glowmod", "SHEIN  Glowmode", "glowmod",
    "abcd", "cd", "xyz", "shein x", "SHEINLeisure" }

\* Arguments of process_comma_separated_shop_names.
ListPool ==
  { "", "  ", ",", " , ", "Leisure, glowmode", "Leisure,,glowmode ", "abcd, xyz",
    "SHEIN,Leisuree, SHEIN GLOWMODE", "abcd", "glowmode,GLOWMODE,glowmod" }

\* Document shapes.
Field(v) == JDict([valueString |-> v])
Content(fields) == JDict([fields |-> fields])
Item(contents) == JDict([result |-> JDict([contents |-> JList(contents)])])

ValuePool ==
  { JStr("Leisure, glowmode"), JStr("abcd, xyz"), JStr("Leisuree,SHEIN"), JStr(" , "),
    JStr(""), JStr("glowmode"), JNull, JNum(0), JNum(5), JBool(TRUE), JBool(FALSE),
    JList(<< >>), JList(<< JStr("glowmode") >>), EmptyDict, JDict([a |-> JNum(1)]) }

FieldsPool ==
  { JDict([shopname |-> Field(v)]) : v \in ValuePool }
  \cup { JDict([shopname |-> Field(JStr("Leisure, glowmode")),
                shopname_in_search_bar |-> Field(v)]) :
           v \in { JStr("GLOWMODE"), JStr("abcd"), JNum(5), JNull } }
  \cup { JDict([shopname_in_search_bar |-> Field(JStr("GLOWMODE"))]),
         JDict([shopname |-> JStr("Leisure")]),
         JDict([shopname |-> EmptyDict]),
         JDict([shopname |-> Field(JNum(5)),
                shopname_in_search_bar |-> Field(JStr("GLOWMODE"))]),
         EmptyDict, JNull, JNum(1), JStr("shopname"), JStr("x"),
         JList(<< >>), JList(<< JStr("shopname") >>),
         JList(<< JStr("shopname_in_search_bar") >>) }

ContentPool ==
  { Content(f) : f \in FieldsPool } \cup { JStr("x"), JDict([other |-> JNull]) }

GoodContent == Content(JDict([shopname |-> Field(JStr("Leisure, glowmode"))]))

ItemPool ==
  { Item(<< c >>) : c \in ContentPool }
  \cup { Item(<< GoodContent, c >>) :
           c \in { GoodContent, Content(JNull),
                   Content(JDict([shopname |-> Field(JStr("abcd, xyz"))])) } }
  \cup { Item(<< >>), JNum(1), JDict([other |-> JNull]), JDict([result |-> JNull]),
         JDict([result |-> JDict([other |-> JNull])]),
         JDict([result |-> JDict([contents |-> JNull])]) }

DocPool ==
  { JList(<< it >>) : it \in ItemPool }
  \cup { JList(<< JNum(1), it >>) :
           it \in { Item(<< GoodContent >>), Item(<< GoodContent, GoodContent >>) } }
  \cup { JList(<< >>), JNull, JStr("shopname"), Item(<< GoodContent >>) }

(***************************************************************************)
(* The state machine                                                       *)
(***************************************************************************)

VARIABLES
  csv_file,                \* the rows of the CSV file the matcher was built from
  standard_shop_names,     \* self.standard_shop_names
  levenshtein_threshold,   \* self.levenshtein_threshold
  jaro_winkler_threshold,  \* self.jaro_winkler_threshold
  heap,                    \* the document objects: a sequence of JSON values
  json_data,               \* reference to the caller's document (0: none)
  processed_data,          \* reference to the returned document (0: none)
  call,                    \* the last call: its operation, argument and outcome
  json_files,              \* batch: the input files glob found, in glob's order
  batch_pc,                \* batch: where batch_process_files stands
  files_done,              \* batch: how many files the loop has been through
  total_replacements,      \* batch: total_replacements
  all_reports,             \* batch: all_reports
  output_dir               \* batch: the files written to the output directory

\* The state of batch_process_files.
batch_vars == << json_files, batch_pc, files_done, total_replacements, all_reports,
                output_dir >>

vars == << csv_file, standard_shop_names, levenshtein_threshold,
           jaro_winkler_threshold, heap, json_data, processed_data, call,
           json_files, batch_pc, files_done, total_replacements, all_reports,
           output_dir >>

matcher == << standard_shop_names, levenshtein_threshold, jaro_winkler_threshold >>

NoCall == [op |-> "none", arg |-> None, ret |-> None, raised |-> NoError, pass |-> 0]

\* Before the matcher is built: the CSV file is csv, no attribute is set.
NotBuilt(csv) ==
  /\ csv_file = csv
  /\ standard_shop_names = << >>
  /\ levenshtein_threshold = FracZero
  /\ jaro_winkler_threshold = FracZero
  /\ heap = << >>
  /\ json_data = 0
  /\ processed_data = 0
  /\ call = [NoCall EXCEPT !.op = "new"]

\* No batch is run: batch_process_files has not been called on files.
NoBatch(files) ==
  /\ json_files = files
  /\ batch_pc = "new"
  /\ files_done = 0
  /\ total_replacements = 0
  /\ all_reports = << >>
  /\ output_dir = << >>

Init == \E csv \in CsvFiles : NotBuilt(csv) /\ NoBatch(<< >>)

\* ShopNameMatcher.__init__(csv_file, levenshtein_threshold, jaro_winkler_threshold):
\* lines 28-30; _load_standard_names re-raises what open() raises (lines 58-60),
\* and then no matcher exists.
Construct ==
  /\ call.op = "new"
  /\ \E t \in ThresholdPairs :
       IF csv_file.readable
       THEN /\ standard_shop_names' = LoadStandardNames(csv_file.rows)
            /\ levenshtein_threshold' = t[1]
            /\ jaro_winkler_threshold' = t[2]
            /\ call' = NoCall
       ELSE /\ call' = [NoCall EXCEPT !.op = "__init__", !.raised = "Exception"]
            /\ UNCHANGED << standard_shop_names, levenshtein_threshold,
                            jaro_winkler_threshold >>
  /\ UNCHANGED << csv_file, heap, json_data, processed_data >>
  /\ UNCHANGED batch_vars

\* A call of find_best_match(raw).
FindBestMatchCall ==
  \E raw \in InputPool :
    /\ call.op = "none"
    /\ call' = [ op |-> "find_best_match", arg |-> raw,
                 ret |-> FindBestMatch(standard_shop_names, levenshtein_threshold,
                                       jaro_winkler_threshold, raw),
                 raised |-> NoError, pass |-> 0 ]
    /\ heap' = << >>
    /\ json_data' = 0
    /\ processed_data' = 0
    /\ UNCHANGED << csv_file, standard_shop_names, levenshtein_threshold,
                    jaro_winkler_threshold >>
    /\ UNCHANGED batch_vars

\* The state after process_comma_separated_shop_names(s) has given r.
NamesReturn(s, r) ==
  /\ call' = [ op |-> "process_comma_separated_shop_names", arg |-> s,
               ret |-> << r.value.str, r.records >>,
               raised |-> r.raised, pass |-> 0 ]
  /\ heap' = << >>
  /\ json_data' = 0
  /\ processed_data' = 0
  /\ UNCHANGED << csv_file, standard_shop_names, levenshtein_threshold,
                  jaro_winkler_threshold >>
  /\ UNCHANGED batch_vars

\* A call of process_comma_separated_shop_names(s).
ProcessNamesCall ==
  /\ call.op = "none"
  /\ \E s \in ListPool :
       NamesReturn(s, ProcessCommaSeparated(standard_shop_names, levenshtein_threshold,
                                            jaro_winkler_threshold, JStr(s)))

\* The state after process_json_data on the object ref of heap h has given r.
JsonReturn(h, ref, pass, r) ==
  /\ heap' = r.heap
  /\ json_data' = ref
  /\ processed_data' = IF r.raised = NoError THEN r.processed_data ELSE 0
  /\ call' = [ op |-> "process_json_data", arg |-> h[ref],
               ret |-> IF r.raised = NoError THEN r.replacement_records ELSE None,
               raised |-> r.raised, pass |-> pass ]
  /\ UNCHANGED << csv_file, standard_shop_names, levenshtein_threshold,
                  jaro_winkler_threshold >>
  /\ UNCHANGED batch_vars

\* process_json_data on the object json_data refers to in heap h; the objects
\* of earlier calls are dropped.
JsonCall(h, ref, pass) ==
  JsonReturn(h, ref, pass,
             ProcessJsonData(standard_shop_names, levenshtein_threshold,
                             jaro_winkler_threshold, h, ref))

\* A call of process_json_data(doc) on a document the caller loaded.
ProcessJsonDataCall ==
  /\ call.op = "none"
  /\ \E doc \in DocPool : JsonCall(<< doc >>, 1, 1)

\* A call of process_json_data on the document the previous call returned.
ProcessJsonDataAgain ==
  /\ call.op = "process_json_data"
  /\ call.raised = NoError
  /\ call.pass < MaxPasses
  /\ JsonCall(<< heap[processed_data] >>, 1, call.pass + 1)

\* The caller is done with the result of the last call and lets go of it; the
\* matcher is used for the next call (the loop over the files of a batch).
NextCall ==
  /\ call.op \notin {"new", "__init__", "none"}
  /\ call' = NoCall
  /\ heap' = << >>
  /\ json_data' = 0
  /\ processed_data' = 0
  /\ UNCHANGED << csv_file, standard_shop_names, levenshtein_threshold,
                  jaro_winkler_threshold >>
  /\ UNCHANGED batch_vars

Next ==
  \/ Construct
  \/ NextCall
  \/ FindBestMatchCall
  \/ ProcessNamesCall
  \/ ProcessJsonDataCall
  \/ ProcessJsonDataAgain

Spec == Init /\ [][Next]_vars

\* The construction alone, over every CSV file of at most MaxRows rows.
InitLoad == \E csv \in AllCsvFiles \cup {Unreadable} : NotBuilt(csv) /\ NoBatch(<< >>)
NextLoad == Construct
SpecLoad == InitLoad /\ [][NextLoad]_vars

(***************************************************************************)
(* ShopNameMatcher.process_json_file and batch_processor.batch_process_files *)
(***************************************************************************)

\* Most input files a batch has.
MaxFiles == 3

\* An input file: its name without ".json", whether open() and json.load()
\* succeed on it, and the document json.load() yields.
JsonFile(name, parses, data) == [name |-> name, parses |-> parses, data |-> data]

\* The input files a directory is filled from: the example document, a file
\* that is not JSON, a document whose valueString is a number, a document with
\* nothing to rewrite.
FilePool ==
  { JsonFile("a", TRUE, JList(<< Item(<< GoodContent >>) >>)),
    JsonFile("b", FALSE, JNull),
    JsonFile("c", TRUE, JList(<< Item(<< Content(JDict([shopname |-> Field(JNum(5))])) >>) >>)),
    JsonFile("d", TRUE, JList(<< Item(<< Content(JDict([shopname |-> Field(JStr("glowmode"))])) >>) >>)) }

\* glob.glob: the files of the directory, each once, in some order.
FileLists ==
  { q \in SeqsUpTo(FilePool, MaxFiles) : \A i, k \in 1..Len(q) : q[i] = q[k] => i = k }

\* A directory after name has been written with content.
WriteFile(dir, name, content) ==
  [ n \in (DOMAIN dir) \cup {name} |-> IF n = name THEN content ELSE dir[n] ]

\* Lines 363-368: replacements per field.
FieldStatistics(records) ==
  [ f \in { records[i].field : i \in 1..Len(records) } |->
      Cardinality({ i \in 1..Len(records) : records[i].field = f }) ]

\* Lines 371-379: the report of one file.
FileReport(records, lt, jt) ==
  [ summary |-> [ total_replacements |-> Len(records),
                  field_statistics |-> FieldStatistics(records),
                  levenshtein_threshold |-> lt,
                  jaro_winkler_threshold |-> jt ],
    replacements |-> records ]

\* Lines 52-53: the names of the two files written for an input file.
OutputFileName(file) == file.name \o "_matched.json"
ReportFileName(file) == file.name \o "_report.json"

\* Lines 353-379: the two files are written once process_json_data has
\* returned r; nothing is written when it raised (lines 383-385 re-raise).
FileWritten(dir, file, lt, jt, r) ==
  IF r.raised # NoError THEN [raised |-> r.raised, dir |-> dir]
  ELSE [ raised |-> NoError,
         dir |-> WriteFile(WriteFile(dir, OutputFileName(file), r.heap[r.processed_data]),
                           ReportFileName(file),
                           FileReport(r.replacement_records, lt, jt)) ]

\* process_json_file(input, output, report) in directory dir: the exception it
\* raises, if any, and the directory afterwards.
ProcessJsonFile(names, lt, jt, dir, file) ==
  IF ~file.parses THEN [raised |-> "Exception", dir |-> dir]
  ELSE FileWritten(dir, file, lt, jt, ProcessJsonData(names, lt, jt, << file.data >>, 1))

\* Lines 72-75: the report with the file information added.
WithFileInfo(report, file) ==
  [ summary |-> report.summary,
    replacements |-> report.replacements,
    file_info |-> [ input_file |-> file.name \o ".json",
                    output_file |-> OutputFileName(file) ] ]

\* A slip: no try/except around a file, its exception ends the batch.
PcAfterFileUncaught(raised) == IF raised = NoError THEN "loop" ELSE "aborted"

\* Lines 57, 81-82: an exception of a file is caught and printed, the loop goes on.
PcAfterFile(raised) == "loop"

\* Lines 85-93: the summary report.
SummaryReport(files, total, reports, lt, jt) ==
  [ batch_summary |-> [ total_files_processed |-> Len(files),
                        total_replacements_across_all_files |-> total,
                        levenshtein_threshold |-> lt,
                        jaro_winkler_threshold |-> jt ],
    individual_reports |-> reports ]

SummaryFileName == "batch_summary_report.json"

\* The matcher is built (lines 30-34) and the function is about to list the files.
BatchRuns == call.op = "none" /\ batch_pc = "new"

\* Lines 36-46: the files are listed; with none, the function returns (lines
\* 39-41) and writes nothing.
BatchStart ==
  /\ BatchRuns
  /\ batch_pc' = IF Len(json_files) = 0 THEN "returned" ELSE "loop"
  /\ files_done' = 0
  /\ total_replacements' = 0
  /\ all_reports' = << >>
  /\ UNCHANGED << json_files, output_dir >>
  /\ UNCHANGED << csv_file, standard_shop_names, levenshtein_threshold,
                  jaro_winkler_threshold, heap, json_data, processed_data, call >>

\* The state after the body of the loop for file, process_json_file having given r.
FileDone(file, r) ==
  /\ batch_pc' = PcAfterFile(r.raised)
  /\ files_done' = files_done + 1
  /\ output_dir' = r.dir
  /\ IF r.raised = NoError
     THEN /\ total_replacements' =
               total_replacements + r.dir[ReportFileName(file)].summary.total_replacements
          /\ all_reports' =
               Append(all_reports, WithFileInfo(r.dir[ReportFileName(file)], file))
     ELSE UNCHANGED << total_replacements, all_reports >>
  /\ UNCHANGED json_files
  /\ UNCHANGED << csv_file, standard_shop_names, levenshtein_threshold,
                  jaro_winkler_threshold, heap, json_data, processed_data, call >>

\* Lines 48-82: one turn of the loop over the files.
BatchFile ==
  /\ batch_pc = "loop"
  /\ files_done < Len(json_files)
  /\ \E r \in { ProcessJsonFile(standard_shop_names, levenshtein_threshold,
                                  jaro_winkler_threshold, output_dir,
                                  json_files[files_done + 1]) } :
       FileDone(json_files[files_done + 1], r)

\* Lines 84-97: after the loop the summary report is written.
BatchSummary ==
  /\ batch_pc = "loop"
  /\ files_done = Len(json_files)
  /\ batch_pc' = "done"
  /\ output_dir' = WriteFile(output_dir, SummaryFileName,
                             SummaryReport(json_files, total_replacements, all_reports,
                                           levenshtein_threshold, jaro_winkler_threshold))
  /\ UNCHANGED << json_files, files_done, total_replacements, all_reports >>
  /\ UNCHANGED << csv_file, standard_shop_names, levenshtein_threshold,
                  jaro_winkler_threshold, heap, json_data, processed_data, call >>

\* batch_process_files(input_dir, output_dir, csv_file, lev_threshold,
\* jw_threshold): the matcher is built (lines 30-34), then the files are gone
\* through one by one, then the summary is written.
InitBatch ==
  \E csv \in { CsvFile(<< << "SHEIN Leisure" >>, << "glowmode" >> >>), Unreadable } :
    \E files \in FileLists : NotBuilt(csv) /\ NoBatch(files)

NextBatch ==
  \/ Construct
  \/ BatchStart
  \/ BatchFile
  \/ BatchSummary

\* Where the function stands: the program point and the position of the loop.
batch_control == << batch_pc, files_done >>

\* The control flow of BatchStart, BatchFile and BatchSummary: the function
\* starts, the loop goes on to the next file, the loop is left for the summary.
BatchMoves ==
  \/ /\ BatchRuns
     /\ batch_pc' \in {"loop", "returned"}
     /\ files_done' = 0
  \/ /\ batch_pc = "loop"
     /\ files_done < Len(json_files)
     /\ batch_pc' = "loop"
     /\ files_done' = files_done + 1
  \/ /\ batch_pc = "loop"
     /\ files_done = Len(json_files)
     /\ batch_pc' = "done"
     /\ files_done' = files_done

\* The interpreter runs the function on: a statement that can be executed is
\* executed, and each call of process_json_file returns or raises.  The
\* fairness is stated on the control flow, whose enabling condition is the
\* guard of the step alone.
SpecBatch == InitBatch /\ [][NextBatch]_vars /\ WF_batch_control(BatchMoves)

(***************************************************************************)
(* Properties of find_best_match                                           *)
(***************************************************************************)

IsFindCall == call.op = "find_best_match"

\* The registry of the examples.
ExampleRegistry == << "SHEIN Leisure", "glowmode" >>

\* C1: a canonical name is never rewritten: for every registry and thresholds,
\* find_best_match of a name held in the registry returns None.
C1_CanonicalNoMatch ==
  (IsFindCall /\ InRegistry(standard_shop_names, call.arg)) => call.ret = None

\* C1 witness: a canonical name that another rule would otherwise rewrite (its
\* lowered form differs from it, so the case-insensitive rule would hit).
C1_Witness ==
  /\ IsFindCall
  /\ InRegistry(standard_shop_names, call.arg)
  /\ Lower(call.arg) # call.arg
  /\ Len(standard_shop_names) >= 2
  /\ call.ret = None

\* C2: an input whose trimmed, case-folded form is the brand token returns
\* None, whatever the registry holds.
C2_BrandTokenNoMatch ==
  (IsFindCall /\ Lower(Strip(call.arg)) = BrandToken) => call.ret = None

\* C2 witness: the registry holds a case variant of the brand token and a
\* brand-prefixed entry, the input is another case variant, not in the registry.
C2_Witness ==
  /\ IsFindCall
  /\ Lower(Strip(call.arg)) = BrandToken
  /\ ~InRegistry(standard_shop_names, Strip(call.arg))
  /\ \E i \in 1..Len(standard_shop_names) : Lower(standard_shop_names[i]) = BrandToken
  /\ \E i \in 1..Len(standard_shop_names) : HasBrandPrefix(Lower(standard_shop_names[i]))
  /\ call.ret = None

IsLeisureeCall ==
  /\ IsFindCall
  /\ call.arg = "Leisuree"
  /\ standard_shop_names = ExampleRegistry
  /\ levenshtein_threshold = Frac(4, 5)
  /\ jaro_winkler_threshold = Frac(4, 5)

\* C6 as stated: with the example registry and both thresholds 0.8,
\* find_best_match("Leisuree") matches "SHEIN Leisure" with a similarity between
\* 0.8 and 0.95 and a label naming a metric and the prefix variant.
C6_Original ==
  IsLeisureeCall =>
    /\ call.ret # None
    /\ call.ret[1] = "SHEIN Leisure"
    /\ FracGeq(call.ret[2], Frac(4, 5))
    /\ FracLeq(call.ret[2], Frac(19, 20))
    /\ call.ret[3] \in { "Levenshtein (SHEIN-added)", "Jaro-Winkler (SHEIN-added)" }

\* C6 amended: the match is on "SHEIN Leisure" with label "Levenshtein
\* (SHEIN-added)" and similarity exactly 1.0, which is the weighted, capped
\* score min(1.0, 1.15 * levenshtein("leisuree", "leisure")) = min(1.0, 1.00625).
C6_LeisureeMatch ==
  IsLeisureeCall =>
    /\ call.ret = << "SHEIN Leisure", FracOne, "Levenshtein (SHEIN-added)" >>
    /\ call.ret[2] = WeightedCapped(LevSimilarity("leisuree", "leisure"), 115, 100)
    /\ LevSimilarity("leisuree", "leisure") = Frac(7, 8)

\* C6 witness: the call of the example has been made and has matched.
C6_Witness == IsLeisureeCall /\ call.ret # None

\* C7: threshold monotonicity: when find_best_match returns None under the
\* matcher's thresholds, it returns None under any thresholds at least as high.
C7_ThresholdMonotone ==
  (IsFindCall /\ call.ret = None) =>
    \A l2 \in ThresholdValues, j2 \in ThresholdValues :
      (FracGeq(l2, levenshtein_threshold) /\ FracGeq(j2, jaro_winkler_threshold))
        => FindBestMatch(standard_shop_names, l2, j2, call.arg) = None

\* C7 witness: a None that the thresholds decide (lower thresholds give a
\* match), under thresholds that can still be raised.
C7_Witness ==
  /\ IsFindCall
  /\ call.ret = None
  /\ levenshtein_threshold = Frac(1, 2)
  /\ jaro_winkler_threshold = Frac(1, 2)
  /\ FindBestMatch(standard_shop_names, FracZero, FracZero, call.arg) # None

\* The labels of generic scoring for a metric: the three prefix variants, and
\* the two baseline labels of the full-string comparison.
PrefixLabels(metric) ==
  { metric \o " (SHEIN-suffix)", metric \o " (SHEIN-removed)", metric \o " (SHEIN-added)" }
BaselineLabels(metric) == { metric, metric \o " (case-insensitive)" }

\* The call returned a match of generic scoring.
IsGenericMatch ==
  /\ IsFindCall
  /\ call.ret # None
  /\ call.ret[3] \in PrefixLabels("Levenshtein") \cup BaselineLabels("Levenshtein")
                       \cup PrefixLabels("Jaro-Winkler") \cup BaselineLabels("Jaro-Winkler")

\* The scores of the returned entry against the input of the call.
WinnerScores == EntryScores(Strip(call.arg), call.ret[1])

\* C13 as stated: the label of a generic match names the metric and the
\* variant whose comparison produced the reported score: a prefix-variant label
\* only if the weighted prefix comparison of that metric attained the score, a
\* baseline label only if the full-string comparison attained it.
C13_Original ==
  IsGenericMatch =>
    /\ call.ret[3] \in PrefixLabels("Levenshtein") => WinnerScores.suffix_lev = call.ret[2]
    /\ call.ret[3] \in PrefixLabels("Jaro-Winkler") => WinnerScores.suffix_jw = call.ret[2]
    /\ call.ret[3] \in BaselineLabels("Levenshtein") => WinnerScores.full_lev = call.ret[2]
    /\ call.ret[3] \in BaselineLabels("Jaro-Winkler") => WinnerScores.full_jw = call.ret[2]

\* None of rules 1-6 decides the input raw: find_best_match goes on to
\* generic scoring (line 127).
ReachesGenericScoring(names, raw) ==
  /\ ~IsBlankInput(raw)
  /\ ~IsExactMatch(names, Strip(raw))
  /\ ~IsBrandToken(Strip(raw))
  /\ CaseInsensitiveIndex(names, Strip(raw)) = 0
  /\ GlowmodeIndex(names, Strip(raw)) = 0
  /\ LeisureIndex(names, Strip(raw)) = 0
  /\ PrefixRemovedIndex(names, Strip(raw)) = 0
  /\ PrefixAddedIndex(names, Strip(raw)) = 0

\* A registry entry qualifies: one of its effective scores meets or exceeds
\* the threshold of its metric.
EntryQualifies(ocr_name, standard_name) ==
  \/ FracGeq(EntryScores(ocr_name, standard_name).current_lev_similarity,
             levenshtein_threshold)
  \/ FracGeq(EntryScores(ocr_name, standard_name).current_jw_similarity,
             jaro_winkler_threshold)

IsGenericCall == IsFindCall /\ ReachesGenericScoring(standard_shop_names, call.arg)

\* C14 as stated: when none of rules 1-6 applies, find_best_match returns a
\* match if and only if at least one registry entry qualifies, for every
\* threshold pair in 0.0-1.0 (a threshold of 0.0 with a score of 0.0 included),
\* and the reported score is in [0.0, 1.0].
C14_Original ==
  IsGenericCall =>
    /\ call.ret # None <=>
         \E i \in 1..Len(standard_shop_names) :
           EntryQualifies(Strip(call.arg), standard_shop_names[i])
    /\ call.ret # None => FracGeq(call.ret[2], FracZero) /\ FracLeq(call.ret[2], FracOne)

\* Entry i qualifies on a metric with the score x.
LevAttains(i, x) ==
  /\ FracGeq(EntryScores(Strip(call.arg), standard_shop_names[i]).current_lev_similarity,
             levenshtein_threshold)
  /\ EntryScores(Strip(call.arg), standard_shop_names[i]).current_lev_similarity = x
JwAttains(i, x) ==
  /\ FracGeq(EntryScores(Strip(call.arg), standard_shop_names[i]).current_jw_similarity,
             jaro_winkler_threshold)
  /\ EntryScores(Strip(call.arg), standard_shop_names[i]).current_jw_similarity = x

\* No qualifying score of entry i is above x.
NoneAbove(i, x) ==
  /\ FracGeq(EntryScores(Strip(call.arg), standard_shop_names[i]).current_lev_similarity,
             levenshtein_threshold)
       => FracLeq(EntryScores(Strip(call.arg), standard_shop_names[i]).current_lev_similarity, x)
  /\ FracGeq(EntryScores(Strip(call.arg), standard_shop_names[i]).current_jw_similarity,
             jaro_winkler_threshold)
       => FracLeq(EntryScores(Strip(call.arg), standard_shop_names[i]).current_jw_similarity, x)

\* The first entry, in registry order, that qualifies with the score x (0: none).
FirstAttaining(x) ==
  FirstIndex({ i \in 1..Len(standard_shop_names) : LevAttains(i, x) \/ JwAttains(i, x) })

\* C15: a match of generic scoring reports the highest qualifying score over
\* all entries and both metrics; of the entries that attain it the first in
\* registry order is returned, and when that entry attains it on Levenshtein
\* the label is a Levenshtein label (Levenshtein is examined first), otherwise
\* a Jaro-Winkler label.
C15_HighestFirstWins ==
  IsGenericMatch =>
    /\ FirstAttaining(call.ret[2]) # 0
    /\ \A i \in 1..Len(standard_shop_names) : NoneAbove(i, call.ret[2])
    /\ call.ret[1] = standard_shop_names[FirstAttaining(call.ret[2])]
    /\ IF LevAttains(FirstAttaining(call.ret[2]), call.ret[2])
       THEN call.ret[3] \in PrefixLabels("Levenshtein") \cup BaselineLabels("Levenshtein")
       ELSE call.ret[3] \in PrefixLabels("Jaro-Winkler") \cup BaselineLabels("Jaro-Winkler")

\* C15 witness: two entries with different names tie on the winning score, and
\* the first of them ties on both metrics; it is returned with a Levenshtein label.
C15_Witness ==
  /\ IsGenericMatch
  /\ \E i, k \in 1..Len(standard_shop_names) :
       /\ i < k
       /\ standard_shop_names[i] # standard_shop_names[k]
       /\ LevAttains(i, call.ret[2]) /\ JwAttains(i, call.ret[2])
       /\ LevAttains(k, call.ret[2]) \/ JwAttains(k, call.ret[2])
       /\ call.ret[1] = standard_shop_names[i]
  /\ call.ret[3] \in PrefixLabels("Levenshtein")

\* The labels of the two special cases (the alias table) and of the two prefix rules.
AliasLabels ==
  { "Special case: SHEIN GLOWMODE -> glowmode", "Special case: Leisure -> SHEIN Leisure" }
PrefixRuleLabels == { "SHEIN-prefix removed exact match", "SHEIN-prefix added exact match" }

\* The input is an alias (in any casing), and its target is or is not in the registry.
IsAlias(ocr_name) == Lower(ocr_name) \in { "shein glowmode", "leisure" }
AliasTargetHeld(names, ocr_name) ==
  GlowmodeIndex(names, ocr_name) # 0 \/ LeisureIndex(names, ocr_name) # 0

\* The rule that decides a call, by the fixed order: 1 empty, 2 exact, 3 brand
\* guard, 4 case-insensitive exact, 5 alias table, 6 prefix strip / add,
\* 7 generic scoring.
FirstApplicable(names, raw) ==
  IF IsBlankInput(raw) THEN 1
  ELSE IF IsExactMatch(names, Strip(raw)) THEN 2
  ELSE IF IsBrandToken(Strip(raw)) THEN 3
  ELSE IF CaseInsensitiveIndex(names, Strip(raw)) # 0 THEN 4
  ELSE IF AliasTargetHeld(names, Strip(raw)) THEN 5
  ELSE IF PrefixRemovedIndex(names, Strip(raw)) # 0 \/ PrefixAddedIndex(names, Strip(raw)) # 0
       THEN 6
  ELSE 7

\* The rule a result comes from, by its label (None: one of the rules 1-3, or
\* generic scoring without a qualifying entry).
RuleOfResult(ret) ==
  IF ret = None THEN {1, 2, 3, 7}
  ELSE IF ret[3] = "Case-insensitive exact match" THEN {4}
  ELSE IF ret[3] \in AliasLabels THEN {5}
  ELSE IF ret[3] \in PrefixRuleLabels THEN {6}
  ELSE {7}

\* C16: the rules are evaluated in the fixed order and the first applicable
\* rule decides; with the example registry "Leisure" gives ("SHEIN Leisure",
\* 1.0) with the alias label although the prefix-added rule applies too, and
\* "SHEIN GLOWMODE" gives ("glowmode", 1.0) with the alias label although the
\* prefix-removed rule applies too; an alias whose target is not in the
\* registry is decided by the later rules.
C16_FirstApplicableRuleDecides ==
  IsFindCall =>
    /\ FirstApplicable(standard_shop_names, call.arg) \in RuleOfResult(call.ret)
    /\ FirstApplicable(standard_shop_names, call.arg) \in {1, 2, 3} => call.ret = None
    /\ FirstApplicable(standard_shop_names, call.arg) \in {4, 5, 6} =>
         call.ret # None /\ call.ret[2] = FracOne
    /\ (standard_shop_names = ExampleRegistry /\ call.arg = "Leisure") =>
         call.ret = << "SHEIN Leisure", FracOne, "Special case: Leisure -> SHEIN Leisure" >>
    /\ (standard_shop_names = ExampleRegistry /\ call.arg = "SHEIN GLOWMODE") =>
         call.ret = << "glowmode", FracOne, "Special case: SHEIN GLOWMODE -> glowmode" >>
    /\ (IsAlias(Strip(call.arg)) /\ ~AliasTargetHeld(standard_shop_names, Strip(call.arg))) =>
         (call.ret = None \/ call.ret[3] \notin AliasLabels)

\* C16 witness: the call of the example on "Leisure": the alias rule and the
\* prefix-added rule both apply, the alias rule has decided.
C16_Witness ==
  /\ IsFindCall
  /\ standard_shop_names = ExampleRegistry
  /\ call.arg = "Leisure"
  /\ PrefixAddedIndex(standard_shop_names, Strip(call.arg)) # 0
  /\ call.ret # None
  /\ call.ret[3] \in AliasLabels

(***************************************************************************)
(* Properties of process_comma_separated_shop_names                        *)
(***************************************************************************)

IsNamesCall == call.op = "process_comma_separated_shop_names"

\* The non-empty trimmed comma-separated tokens of a string, in order.
Tokens(s) == SelectSeq(StrippedNames(s), LAMBDA x : x # "")

\* What a token becomes: the canonical name when it matches, itself when not.
Rewritten(token) ==
  LET m == FindBestMatch(standard_shop_names, levenshtein_threshold,
                         jaro_winkler_threshold, token)
  IN IF m # None THEN m[1] ELSE token

\* C4 as stated: token count and order are preserved: an input with n non-empty
\* trimmed tokens gives an output of exactly n comma-separated segments, the
\* i-th being the canonical name of the i-th token or the token itself.
C4_Original ==
  IsNamesCall =>
    LET tokens == Tokens(call.arg)
        segments == Tokens(call.ret[1])
    IN /\ Len(segments) = Len(tokens)
       /\ \A i \in 1..Len(tokens) : segments[i] = Rewritten(tokens[i])

(***************************************************************************)
(* Properties of process_json_data                                         *)
(***************************************************************************)

IsJsonCall == call.op = "process_json_data"

\* The valueString of the target field key of content j of item i of a document.
ValueAt(doc, i, j, key) ==
  doc.list[i].dict["result"].dict["contents"].list[j].dict["fields"].dict[key].dict["valueString"]

\* C3 as stated: round-trip idempotence: process_json_data applied to the
\* output of process_json_data gives no replacement record and leaves the
\* document as it is.
C3_Original ==
  (IsJsonCall /\ call.pass >= 2 /\ call.raised = NoError) =>
    /\ call.ret = << >>
    /\ heap[processed_data] = call.arg

\* The document of the example: one item, one content, shopname "Leisure, glowmode".
ExampleDoc == JList(<< Item(<< GoodContent >>) >>)

IsExampleDocCall ==
  /\ IsJsonCall
  /\ call.pass = 1
  /\ call.arg = ExampleDoc
  /\ standard_shop_names = ExampleRegistry

\* C5 as stated: the example document becomes "SHEIN Leisure, glowmode" with
\* exactly two records, both of field "shopname", with distinct paths.
C5_Original ==
  IsExampleDocCall =>
    /\ call.raised = NoError
    /\ ValueAt(heap[processed_data], 1, 1, "shopname") = JStr("SHEIN Leisure, glowmode")
    /\ Len(call.ret) = 2
    /\ \A k \in 1..Len(call.ret) : call.ret[k].field = "shopname"
    /\ call.ret[1].path # call.ret[2].path

\* C5 amended: the example document becomes "SHEIN Leisure, glowmode" with
\* exactly one record, for "Leisure" (the token "glowmode" is canonical already
\* and gives none), of field "shopname" and path
\* "[0].result.contents[0].fields.shopname.valueString".
C5_ExampleDocument ==
  IsExampleDocCall =>
    /\ call.raised = NoError
    /\ ValueAt(heap[processed_data], 1, 1, "shopname") = JStr("SHEIN Leisure, glowmode")
    /\ call.ret = << [ original |-> "Leisure", replaced |-> "SHEIN Leisure",
                       similarity |-> FracOne,
                       algorithm |-> "Special case: Leisure -> SHEIN Leisure",
                       path |-> "[0].result.contents[0].fields.shopname.valueString",
                       field |-> "shopname" ] >>

\* C5 witness: the example document has been processed and rewritten.
C5_Witness ==
  /\ IsExampleDocCall
  /\ call.raised = NoError
  /\ heap[processed_data] # call.arg

\* C8 as stated: process_json_data never raises for data-shape reasons: on
\* every JSON document the call completes normally.
C8_Original == IsJsonCall => call.raised = NoError

\* C9: process_json_data leaves the caller's document unchanged (also when it
\* raises): after the call the object the caller passed holds the value it held
\* before, the rewrites being in the returned copy; the registry and the
\* thresholds of the matcher are unchanged by the call.
C9_CallerDocumentUnchanged ==
  [][ (call'.op = "process_json_data") =>
        /\ heap'[json_data'] = call'.arg
        /\ (processed_data' # 0 => processed_data' # json_data')
        /\ matcher' = matcher ]_vars

\* C9 witness: a call that rewrote the copy and left the caller's document alone.
C9_Witness ==
  /\ IsJsonCall
  /\ call.raised = NoError
  /\ Len(call.ret) > 0
  /\ heap[processed_data] # heap[json_data]
  /\ heap[json_data] = call.arg

TargetKeys == { "shopname", "shopname_in_search_bar" }

\* The contents list of item i of a document, empty where the item has none.
ContentsOf(doc, i) ==
  IF /\ IsDict(doc.list[i])
     /\ "result" \in DOMAIN doc.list[i].dict
     /\ IsDict(doc.list[i].dict["result"])
     /\ "contents" \in DOMAIN doc.list[i].dict["result"].dict
     /\ IsList(doc.list[i].dict["result"].dict["contents"])
  THEN doc.list[i].dict["result"].dict["contents"].list
  ELSE << >>

\* A content holds the target field key with a valueString.
HasTarget(content, key) ==
  /\ IsDict(content)
  /\ "fields" \in DOMAIN content.dict
  /\ IsDict(content.dict["fields"])
  /\ key \in DOMAIN content.dict["fields"].dict
  /\ IsDict(content.dict["fields"].dict[key])
  /\ "valueString" \in DOMAIN content.dict["fields"].dict[key].dict

\* The places <<i, j, key>> of the target fields of a document.
Targets(doc) ==
  IF ~IsList(doc) THEN { }
  ELSE UNION { { t \in { i } \X (1..Len(ContentsOf(doc, i))) \X TargetKeys :
                   HasTarget(ContentsOf(doc, i)[t[2]], t[3]) } :
               i \in 1..Len(doc.list) }

\* The number of records of the last call with the path of the place t.
RecordsAt(t) ==
  Cardinality({ n \in 1..Len(call.ret) :
                  call.ret[n].path = RecordPath(t[1] - 1, t[2] - 1, t[3]) })

\* A string value with its tokens trimmed, the empty ones dropped, and the rest
\* joined by ", "; any other value as it is.
Normalised(v) ==
  IF IsStr(v) /\ Strip(v.str) # "" THEN JStr(JoinCommaSpace(Tokens(v.str))) ELSE v

IsJsonReturn == IsJsonCall /\ call.raised = NoError

\* Every record names a registry member that differs from the original.
RecordsSound ==
  \A n \in 1..Len(call.ret) :
    /\ InRegistry(standard_shop_names, call.ret[n].replaced)
    /\ call.ret[n].replaced # call.ret[n].original

\* C17 as stated: a target field's valueString in the output differs from its
\* value in the input only if a record with that field's path was emitted (with
\* no record the value is passed through unchanged), and every record has a
\* 'replaced' that is a registry member different from its 'original'.
C17_Original ==
  IsJsonReturn =>
    /\ \A t \in Targets(call.arg) :
         ValueAt(heap[processed_data], t[1], t[2], t[3]) # ValueAt(call.arg, t[1], t[2], t[3])
           => RecordsAt(t) >= 1
    /\ RecordsSound

\* C17 amended: a target field's valueString in the output differs from the
\* normalised value of the input (tokens trimmed, empty tokens dropped, joined
\* by ", ") only if a record with that field's path was emitted; with no record
\* the output is that normalised value, and an empty or blank value is passed
\* through as it is; every record has a 'replaced' that is a registry member
\* different from its 'original'.
C17_AuditComplete ==
  IsJsonReturn =>
    /\ Targets(heap[processed_data]) = Targets(call.arg)
    /\ \A t \in Targets(call.arg) :
         ValueAt(heap[processed_data], t[1], t[2], t[3])
             # Normalised(ValueAt(call.arg, t[1], t[2], t[3]))
           => RecordsAt(t) >= 1
    /\ RecordsSound

\* C17 witness: a call that left one target field with a record and a
\* rewritten value, and in which every record is for a field of the document.
C17_Witness ==
  /\ IsJsonReturn
  /\ Len(call.ret) >= 1
  /\ \E t \in Targets(call.arg) :
       /\ RecordsAt(t) >= 1
       /\ ValueAt(heap[processed_data], t[1], t[2], t[3])
            # Normalised(ValueAt(call.arg, t[1], t[2], t[3]))

(***************************************************************************)
(* Properties of the registry                                              *)
(***************************************************************************)

IsBuilt == call.op \notin {"new", "__init__"}

\* C10 as stated: after construction from any CSV file the registry holds only
\* names that are non-empty after trimming, and no two equal entries.
C10_Original ==
  IsBuilt =>
    /\ \A i \in 1..Len(standard_shop_names) : Strip(standard_shop_names[i]) # ""
    /\ \A i, k \in 1..Len(standard_shop_names) :
         standard_shop_names[i] = standard_shop_names[k] => i = k

(***************************************************************************)
(* Properties of batch_process_files                                       *)
(***************************************************************************)

\* What process_json_file gives for a file processed on its own, in an empty
\* output directory, by the matcher of the batch.
FileOutcome(file) ==
  ProcessJsonFile(standard_shop_names, levenshtein_threshold, jaro_winkler_threshold,
                  << >>, file)

FileFails(file) == FileOutcome(file).raised # NoError

\* The files of a list whose processing does not fail, in order.
Succeeding(files) == SelectSeq(files, LAMBDA f : ~FileFails(f))

\* The report of a file processed on its own, as the batch lists it.
OwnReport(file) == WithFileInfo(FileOutcome(file).dir[ReportFileName(file)], file)

\* The reports of the succeeding files of a list, in order.
OwnReports(files) ==
  [ i \in 1..Len(Succeeding(files)) |-> OwnReport(Succeeding(files)[i]) ]

SummaryWritten == SummaryFileName \in DOMAIN output_dir

\* Whatever files failed, the reports gathered so far are those of the
\* succeeding files gone through, each as if processed on its own; at the end
\* the summary lists them and every succeeding file has its output written.
SiblingsReported ==
  /\ batch_pc \in {"loop", "done"} =>
       all_reports = OwnReports(SubSeq(json_files, 1, files_done))
  /\ batch_pc = "done" =>
       /\ SummaryWritten
       /\ output_dir[SummaryFileName].individual_reports = OwnReports(json_files)
       /\ \A i \in 1..Len(json_files) :
            ~FileFails(json_files[i]) =>
              /\ OutputFileName(json_files[i]) \in DOMAIN output_dir
              /\ output_dir[OutputFileName(json_files[i])] =
                   FileOutcome(json_files[i]).dir[OutputFileName(json_files[i])]

\* C11 as stated: for every sequence of input files, whatever subset fails,
\* every other file is processed and reported unchanged, and the batch summary
\* report is eventually written.
C11_Original == [](SiblingsReported) /\ (BatchRuns ~> SummaryWritten)

\* C11 amended: the same for every sequence of at least one input file (with
\* no input file the function returns at lines 39-41 and writes no summary).
C11_FailureDoesNotAbort ==
  [](SiblingsReported) /\ ((BatchRuns /\ Len(json_files) > 0) ~> SummaryWritten)

\* C11 witness: the batch is over, a file failed and a file after it was
\* processed and is reported in the summary.
C11_Witness ==
  /\ batch_pc = "done"
  /\ SummaryWritten
  /\ \E i, k \in 1..Len(json_files) :
       /\ i < k
       /\ FileFails(json_files[i])
       /\ ~FileFails(json_files[k])
       /\ \E n \in 1..Len(output_dir[SummaryFileName].individual_reports) :
            output_dir[SummaryFileName].individual_reports[n] = OwnReport(json_files[k])

\* C12 as stated: every file whose processing fails is recorded in the batch
\* results with a failed-state marker: the summary's individual reports hold an
\* entry for it, and the count of processed files leaves it out.
C12_Original ==
  batch_pc = "done" =>
    \A i \in 1..Len(json_files) :
      FileFails(json_files[i]) =>
        /\ \E n \in 1..Len(output_dir[SummaryFileName].individual_reports) :
             output_dir[SummaryFileName].individual_reports[n].file_info.input_file
               = json_files[i].name \o ".json"
        /\ output_dir[SummaryFileName].batch_summary.total_files_processed
             < Len(json_files)

====
